---- MODULE Spec2Model ----
(***************************************************************************)
(* Model of the gcsfuse volume drivers of docker-volume-gcs.               *)
(*                                                                         *)
(*   src/main.go            driver with a by-value map  cmds               *)
(*   src/unnamed/part_000   driver with a map of pointers  cmds             *)
(*   src/unnamed/part_001   reference-counting driver with map  daemons    *)
(*                                                                         *)
(* Every RPC handler is a goroutine that first takes the driver's mutex    *)
(* (Lock) and then runs its whole body, deferred Unlock included, as one   *)
(* step.  What the operating system and the gcsfuse subprocess do during   *)
(* a call (mkdir, pipe, fork, the first stderr line, wait) is chosen       *)
(* nondeterministically inside the step.                                   *)
(*                                                                         *)
(* Text is a sequence of characters.  The character "M" abbreviates the    *)
(* text "File system has been successfully mounted." (without newline).    *)
(***************************************************************************)
EXTENDS Integers, Sequences, FiniteSets, TLC

\* Bounds of the model.
NumHandlers == 2    \* concurrent RPC handler goroutines
MaxSpawn    == 2    \* subprocesses the operating system lets the driver fork
MaxRefs     == 2    \* Mount requests issued per registered daemon (part_001)
MaxLine     == 3    \* length of the first stderr line, newline included

Handlers == 1..NumHandlers

\* Volume names the requests carry ("b/x" is an object of bucket "b").
Names == { <<"b">>, <<"b", "/", "x">>, <<"c">> }

\* Volume names of the requests to the reference-counting driver, which keys
\* its registry by the whole name.
RefNames == { <<"b">>, <<"b", "/", "x">> }

\* var root = os.Args[len(os.Args)-1]
root == <<"/", "r">>

\* The literal of strings.HasSuffix(l, "File system has been successfully mounted.\n")
Sentinel == <<"M", "\n">>

LineChars == {"M", "x"}

\* What ReadString('\n') returns with a nil error: text up to and including
\* the first newline.
Lines ==
  { l \in UNION { [1..n -> LineChars \cup {"\n"}] : n \in 1..MaxLine } :
      /\ l[Len(l)] = "\n"
      /\ \A i \in 1..(Len(l) - 1) : l[i] # "\n" }

----------------------------------------------------------------------------
\* Library functions the drivers call.

\* strings.HasSuffix
HasSuffix(s, suffix) ==
  /\ Len(s) >= Len(suffix)
  /\ SubSeq(s, Len(s) - Len(suffix) + 1, Len(s)) = suffix

\* strings.Index(s, c) for a one-character c: 0-based, -1 when absent.
Index(s, c) ==
  IF \E i \in 1..Len(s) : s[i] = c
  THEN (CHOOSE i \in 1..Len(s) : s[i] = c /\ \A j \in 1..(i - 1) : s[j] # c) - 1
  ELSE -1

RECURSIVE Collapse(_)
\* filepath.Clean, rule 1: replace multiple separators with a single one.
Collapse(s) ==
  IF Len(s) <= 1 THEN s
  ELSE IF s[1] = "/" /\ s[2] = "/" THEN Collapse(Tail(s))
  ELSE <<s[1]>> \o Collapse(Tail(s))

\* filepath.Clean restricted to paths without "." and ".." elements:
\* separators are collapsed and a trailing separator is dropped.
Clean(s) ==
  IF s = <<>> THEN <<".">>
  ELSE LET c == Collapse(s)
       IN IF Len(c) > 1 /\ c[Len(c)] = "/" THEN SubSeq(c, 1, Len(c) - 1) ELSE c

\* filepath.Join(a, b): the non-empty elements joined by "/" and cleaned.
Join(a, b) ==
  IF a = <<>> /\ b = <<>> THEN <<>>
  ELSE IF b = <<>> THEN Clean(a)
  ELSE IF a = <<>> THEN Clean(b)
  ELSE Clean(a \o <<"/">> \o b)

\* The directories os.MkdirAll(path) makes sure exist: path and its parents.
MkdirAll(path) ==
  { SubSeq(path, 1, i) : i \in { j \in 1..Len(path) :
                                   j = Len(path) \/ (path[j + 1] = "/" /\ j >= 1) } }

----------------------------------------------------------------------------
\* Helpers of the drivers.

\* func (d driver) mountpoint(name string) string
mountpoint(name) == Join(root, name)

\* func (d driver) bucket(name string) string
bucket(name) ==
  LET i == Index(name, "/")
  IN IF i = -1 THEN name ELSE SubSeq(name, 1, i)

----------------------------------------------------------------------------
\* State.

VARIABLES
  mutex,     \* driver.Mutex: 0 when free, else the handler holding it
  pc,        \* per handler: "idle", "waiting" (blocked in d.Lock()), "locked"
  cmds,      \* src/main.go: bucket -> exec.Cmd
  daemons,   \* part_001: volume name -> daemon (exec.Cmd and refs)
  procs,     \* the subprocesses forked so far; the index is the pid
  dirs,      \* the directories that exist below (and including) root
  last       \* the call that returned last: its request, response and the
             \* line it read from the subprocess

vars == <<mutex, pc, cmds, daemons, procs, dirs, last>>

\* A response: err is "nil" or names the error, output is the text the error
\* carries, Mountpoint the path returned, Volumes the volumes listed.
Resp(err, output, mnt) ==
  [err |-> err, output |-> output, Mountpoint |-> mnt, Volumes |-> {}]

Ok(mnt)   == Resp("nil", <<>>, mnt)
Fail(err) == Resp(err, <<>>, <<>>)

\* exec.Command(...): not started, no ProcessState, Stderr not set.
Command == [Process |-> 0, ProcessState |-> "nil", Stderr |-> FALSE]

\* daemon.ProcessState != nil && daemon.ProcessState.Exited()
Zombie(cmd) == cmd.ProcessState # "nil" /\ cmd.ProcessState = "exited"

\* A forked subprocess: arg is the bucket (or name) it was started for,
\* state is "running", "signalled" (interrupted, not waited on) or "exited"
\* (waited on).
Proc(arg) == [arg |-> arg, state |-> "running"]

\* What the operating system does during one call.
\*   mkdir, pipe, start : TRUE when the call fails
\*   read               : the text ReadString returns
\*   wait               : "err", "clean" or "dirty"
Env(mkdir, pipe, start, read, wait) ==
  [mkdir |-> mkdir, pipe |-> pipe, start |-> start, read |-> read, wait |-> wait]

\* The outcomes of the calls a Mount makes: the first call that fails, or none
\* and the text read.  fork fails once MaxSpawn subprocesses exist.
MountEnvs ==
  { Env(TRUE, FALSE, FALSE, <<>>, "clean"),
    Env(FALSE, TRUE, FALSE, <<>>, "clean"),
    Env(FALSE, FALSE, TRUE, <<>>, "clean") }
  \cup IF Len(procs) < MaxSpawn
       THEN { Env(FALSE, FALSE, FALSE, l, "clean") : l \in Lines \cup {<<>>} }
       ELSE {}

\* The outcomes of the calls a Mount of part_001 makes: it creates no
\* directory.
RefMountEnvs == { e \in MountEnvs : ~e.mkdir }

\* The outcomes of directory creation in Create.
MkdirEnvs ==
  { Env(b, FALSE, FALSE, <<>>, "clean") : b \in BOOLEAN }

\* The outcomes of Process.Wait.
WaitEnvs ==
  { Env(FALSE, FALSE, FALSE, <<>>, w) : w \in {"err", "clean", "dirty"} }

\* ReadString('\n') returns err != nil if and only if the returned text does
\* not end in the delimiter (here: the stream ended before any text).
ReadErr(l) == l = <<>> \/ l[Len(l)] # "\n"

\* The result of a handler body: the new state and the response.
Out(c, d, p, ds, resp, line) ==
  [cmds |-> c, daemons |-> d, procs |-> p, dirs |-> ds, resp |-> resp, line |-> line]

\* daemon.Process.Signal(os.Interrupt); ps, err := daemon.Process.Wait()
\* on a started process: the outcome ("err", "clean", "dirty") and the
\* process table afterwards.  A process that was already waited on cannot be
\* waited on again.
Wait(p, pid, env) ==
  IF p[pid].state = "exited" THEN [res |-> "err", procs |-> p]
  ELSE IF env.wait = "err"
       THEN [res |-> "err", procs |-> [p EXCEPT ![pid].state = "signalled"]]
       ELSE [res |-> env.wait, procs |-> [p EXCEPT ![pid].state = "exited"]]

----------------------------------------------------------------------------
\* src/main.go

\* Variant of Mounted: the line is compared with the sentinel for equality.
MountedExact(l) == l = Sentinel

\* strings.HasSuffix(l, "File system has been successfully mounted.\n")
Mounted(l) == HasSuffix(l, Sentinel)

\* return &volume.MountResponse{Mountpoint: d.mountpoint(r.Name)}, nil
\* of a Mount that found the bucket registered.
MountFound(name) == Ok(mountpoint(name))

\* Variant of MountStarted: the response carries the directory of the bucket.
MountStartedAtBucket(name) == Ok(mountpoint(bucket(name)))

\* return &volume.MountResponse{Mountpoint: d.mountpoint(r.Name)}, nil
\* of a Mount that started the subprocess.
MountStarted(name) == Ok(mountpoint(name))

\* func (d driver) Mount(r *volume.MountRequest): the body under the lock.
MountBody(name, env) ==
  LET b   == bucket(name)
      mnt == mountpoint(b)
      pid == Len(procs) + 1
      made == dirs \cup MkdirAll(mnt)
      started == Append(procs, Proc(b))
  IN IF b \in DOMAIN cmds
     THEN IF Zombie(cmds[b])
          THEN Out(cmds, daemons, procs, dirs, Fail("errZombie"), <<>>)
          ELSE Out(cmds, daemons, procs, dirs, MountFound(name), <<>>)
     ELSE IF env.mkdir
     THEN Out(cmds, daemons, procs, dirs, Fail("errOS"), <<>>)
     ELSE IF env.pipe
     THEN Out(cmds, daemons, procs, made, Fail("errBadRead"), <<>>)
     ELSE IF env.start
     THEN Out(cmds, daemons, procs, made, Fail("errOS"), <<>>)
     ELSE IF ReadErr(env.read)
     THEN Out(cmds, daemons, started, made, Fail("errBadRead"), <<>>)
     ELSE IF ~Mounted(env.read)
     THEN Out(cmds, daemons, started, made,
              Resp("errUnexpectedOutput", env.read, <<>>), env.read)
     ELSE Out(cmds @@ (b :> [Command EXCEPT !.Process = pid, !.Stderr = TRUE]),
              daemons, started, made, MountStarted(name), env.read)

\* func (d driver) Remove(r *volume.RemoveRequest): the body under the lock.
RemoveBody(name, env) ==
  LET b == bucket(name)
  IN IF b \notin DOMAIN cmds
     THEN Out(cmds, daemons, procs, dirs, Ok(<<>>), <<>>)
     ELSE LET w == Wait(procs, cmds[b].Process, env)
          IN IF w.res = "err"
             THEN Out(cmds, daemons, w.procs, dirs, Fail("errOS"), <<>>)
             ELSE IF w.res = "dirty"
             THEN Out(cmds, daemons, w.procs, dirs, Fail("errDaemonDirty"), <<>>)
             ELSE Out(cmds, daemons, w.procs, dirs, Ok(<<>>), <<>>)

\* &volume.Volume{Name: name, Mountpoint: d.mountpoint(name)}
Volume(name) == [Name |-> name, Mountpoint |-> mountpoint(name)]

\* ioutil.ReadDir(root), filtered by entry.IsDir(): the names of the
\* directories directly below root.
ReadDir ==
  { SubSeq(d, Len(root) + 2, Len(d)) :
      d \in { e \in dirs :
                /\ Len(e) > Len(root) + 1
                /\ SubSeq(e, 1, Len(root) + 1) = root \o <<"/">>
                /\ \A i \in (Len(root) + 2)..Len(e) : e[i] # "/" } }

\* Variant of ListBody: the volumes are the buckets of the registry whose
\* subprocess has not been waited on.
ListBodyFromRegistry(fails) ==
  IF fails
  THEN Out(cmds, daemons, procs, dirs, Fail("errOS"), <<>>)
  ELSE Out(cmds, daemons, procs, dirs,
           [Ok(<<>>) EXCEPT !.Volumes =
              { Volume(b) : b \in { c \in DOMAIN cmds :
                                      procs[cmds[c].Process].state # "exited" } }],
           <<>>)

\* func (d driver) List(): the body under the lock; fails tells whether
\* ioutil.ReadDir(root) returns an error.
ListBody(fails) ==
  IF fails
  THEN Out(cmds, daemons, procs, dirs, Fail("errOS"), <<>>)
  ELSE Out(cmds, daemons, procs, dirs,
           [Ok(<<>>) EXCEPT !.Volumes = { Volume(n) : n \in ReadDir }], <<>>)

----------------------------------------------------------------------------
\* src/unnamed/part_000: the driver with a map of pointers, cmds

\* func (d driver) Mount(r plugin.Request): the body under the lock.
PtrMountBody(name, env) ==
  LET b   == bucket(name)
      mnt == mountpoint(b)
      pid == Len(procs) + 1
      made == dirs \cup MkdirAll(mnt)
      started == Append(procs, Proc(b))
  IN IF b \in DOMAIN cmds
     THEN IF Zombie(cmds[b])
          THEN Out(cmds, daemons, procs, dirs, Fail("errZombie"), <<>>)
          ELSE Out(cmds, daemons, procs, dirs, Ok(<<>>), <<>>)
     ELSE IF env.mkdir
     THEN Out(cmds, daemons, procs, dirs, Fail("errOS"), <<>>)
     ELSE IF env.pipe
     THEN Out(cmds, daemons, procs, made, Fail("errBadRead"), <<>>)
     ELSE IF env.start
     THEN Out(cmds, daemons, procs, made, Fail("errOS"), <<>>)
     ELSE IF ReadErr(env.read)
     THEN Out(cmds, daemons, started, made, Fail("errBadRead"), <<>>)
     ELSE IF ~HasSuffix(env.read, Sentinel)
     THEN Out(cmds, daemons, started, made,
              Resp("errUnexpectedOutput", env.read, <<>>), env.read)
     ELSE Out(cmds @@ (b :> [Command EXCEPT !.Process = pid, !.Stderr = TRUE]),
              daemons, started, made, Ok(mountpoint(name)), env.read)

\* func (d driver) Remove(r plugin.Request): the body under the lock.
PtrRemoveBody(name, env) ==
  LET b == bucket(name)
  IN IF b \notin DOMAIN cmds
     THEN Out(cmds, daemons, procs, dirs, Ok(<<>>), <<>>)
     ELSE LET w == Wait(procs, cmds[b].Process, env)
          IN IF w.res = "err"
             THEN Out(cmds, daemons, w.procs, dirs, Fail("errOS"), <<>>)
             ELSE IF w.res = "dirty"
             THEN Out(cmds, daemons, w.procs, dirs, Fail("errDaemonDirty"), <<>>)
             ELSE Out(cmds, daemons, w.procs, dirs, Ok(<<>>), <<>>)

----------------------------------------------------------------------------
\* src/unnamed/part_001: the reference-counting driver

\* &daemon{cmd, refs}
Daemon(cmd, refs) ==
  [Process |-> cmd.Process, ProcessState |-> cmd.ProcessState,
   Stderr |-> cmd.Stderr, refs |-> refs]

\* delete(d.daemons, name)
Delete(d, name) == [n \in (DOMAIN d) \ {name} |-> d[n]]

\* func (d driver) Create(r plugin.Request): the body under the lock.
RefCreateBody(name, env) ==
  LET mnt == mountpoint(name)
  IN IF name \in DOMAIN daemons
     THEN IF daemons[name].ProcessState = "nil" \/ daemons[name].refs > 0
          THEN Out(cmds, daemons, procs, dirs, Ok(<<>>), <<>>)
          ELSE Out(cmds, daemons, procs, dirs, Fail("errZombie"), <<>>)
     ELSE IF env.mkdir
     THEN Out(cmds, daemons, procs, dirs, Fail("errOS"), <<>>)
     ELSE Out(cmds, daemons @@ (name :> Daemon(Command, 0)), procs,
              dirs \cup MkdirAll(mnt), Ok(<<>>), <<>>)

\* Variant of RefMountBody: a Mount that started the subprocess and did not
\* observe the sentinel drops the entry again.
RefMountBodyForget(name, env) ==
  IF name \notin DOMAIN daemons
  THEN Out(cmds, daemons, procs, dirs, Fail("errUnknownVolume"), <<>>)
  ELSE IF Zombie(daemons[name])
  THEN Out(cmds, daemons, procs, dirs, Fail("errZombie"), <<>>)
  ELSE
    LET d0  == daemons[name]
        d1  == [d0 EXCEPT !.refs = @ + 1]
        d2  == [d1 EXCEPT !.Stderr = TRUE]
        pid == Len(procs) + 1
        d3  == [d2 EXCEPT !.Process = pid]
        started == Append(procs, Proc(name))
        With(d) == [daemons EXCEPT ![name] = d]
    IN IF d0.Stderr \/ d0.Process # 0 \/ env.pipe
       THEN Out(cmds, With(d1), procs, dirs, Fail("errBadRead"), <<>>)
       ELSE IF d0.Process # 0 \/ env.start
       THEN Out(cmds, With(d2), procs, dirs, Fail("errOS"), <<>>)
       ELSE IF ReadErr(env.read)
       THEN Out(cmds, Delete(daemons, name), started, dirs,
                Fail("errBadRead"), <<>>)
       ELSE IF ~HasSuffix(env.read, Sentinel)
       THEN Out(cmds, Delete(daemons, name), started, dirs,
                Resp("errUnexpectedOutput", env.read, <<>>), env.read)
       ELSE Out(cmds, With(d3), started, dirs, Ok(mountpoint(name)), env.read)

\* func (d driver) Mount(r plugin.Request): the body under the lock.
\* StderrPipe fails when Stderr is already set or the process was started,
\* Start fails when the process was started.
RefMountBody(name, env) ==
  IF name \notin DOMAIN daemons
  THEN Out(cmds, daemons, procs, dirs, Fail("errUnknownVolume"), <<>>)
  ELSE IF Zombie(daemons[name])
  THEN Out(cmds, daemons, procs, dirs, Fail("errZombie"), <<>>)
  ELSE
    LET d0  == daemons[name]
        d1  == [d0 EXCEPT !.refs = @ + 1]
        d2  == [d1 EXCEPT !.Stderr = TRUE]
        pid == Len(procs) + 1
        d3  == [d2 EXCEPT !.Process = pid]
        started == Append(procs, Proc(name))
        With(d) == [daemons EXCEPT ![name] = d]
    IN IF d0.Stderr \/ d0.Process # 0 \/ env.pipe
       THEN Out(cmds, With(d1), procs, dirs, Fail("errBadRead"), <<>>)
       ELSE IF d0.Process # 0 \/ env.start
       THEN Out(cmds, With(d2), procs, dirs, Fail("errOS"), <<>>)
       ELSE IF ReadErr(env.read)
       THEN Out(cmds, With(d3), started, dirs, Fail("errBadRead"), <<>>)
       ELSE IF ~HasSuffix(env.read, Sentinel)
       THEN Out(cmds, With(d3), started, dirs,
                Resp("errUnexpectedOutput", env.read, <<>>), env.read)
       ELSE Out(cmds, With(d3), started, dirs, Ok(mountpoint(name)), env.read)

\* Variant of UnmountUnknown: an unknown volume is ignored.
UnmountUnknownIgnored == Ok(<<>>)

\* return bail(errUnknownVolume) of Unmount
UnmountUnknown == Fail("errUnknownVolume")

\* Variant of RefUnmountBody: refs is decremented before the subprocess is
\* signalled and waited on.
RefUnmountBodyEarlyDecrement(name, env) ==
  IF name \notin DOMAIN daemons
  THEN Out(cmds, daemons, procs, dirs, UnmountUnknown, <<>>)
  ELSE
    LET refs == daemons[name].refs - 1
        dec  == [daemons EXCEPT ![name].refs = refs]
    IN IF daemons[name].Process = 0
       THEN Out(cmds, dec, procs, dirs, Fail("panic"), <<>>)
       ELSE
         LET w == Wait(procs, daemons[name].Process, env)
         IN IF w.res = "err"
            THEN Out(cmds, dec, w.procs, dirs, Fail("errOS"), <<>>)
            ELSE IF w.res = "dirty"
            THEN Out(cmds, dec, w.procs, dirs, Fail("errDaemonDirty"), <<>>)
            ELSE IF refs = 0
            THEN Out(cmds, Delete(daemons, name), w.procs, dirs, Ok(<<>>), <<>>)
            ELSE Out(cmds, dec, w.procs, dirs, Ok(<<>>), <<>>)

\* func (d driver) Unmount(r plugin.Request): the body under the lock.
\* daemon.Process is nil until Start succeeded: Signal and Wait on it panic
\* with a nil pointer dereference; the deferred Unlock runs and the call
\* ends without a response.
RefUnmountBody(name, env) ==
  IF name \notin DOMAIN daemons
  THEN Out(cmds, daemons, procs, dirs, UnmountUnknown, <<>>)
  ELSE IF daemons[name].Process = 0
  THEN Out(cmds, daemons, procs, dirs, Fail("panic"), <<>>)
  ELSE
    LET w == Wait(procs, daemons[name].Process, env)
        refs == daemons[name].refs - 1
    IN IF w.res = "err"
       THEN Out(cmds, daemons, w.procs, dirs, Fail("errOS"), <<>>)
       ELSE IF w.res = "dirty"
       THEN Out(cmds, daemons, w.procs, dirs, Fail("errDaemonDirty"), <<>>)
       ELSE IF refs = 0
       THEN Out(cmds, Delete(daemons, name), w.procs, dirs, Ok(<<>>), <<>>)
       ELSE Out(cmds, [daemons EXCEPT ![name].refs = refs], w.procs, dirs,
                Ok(<<>>), <<>>)

----------------------------------------------------------------------------
\* The handlers.  A handler reads its request (r.Name) only after d.Lock()
\* returned, so the request is drawn in the step that runs the body.

\* Variant of Return: the mutex is released on the successful return only.
ReturnUnlockOnSuccess(h, op, name, o) ==
  /\ cmds' = o.cmds
  /\ daemons' = o.daemons
  /\ procs' = o.procs
  /\ dirs' = o.dirs
  /\ last' = [op |-> op, name |-> name, err |-> o.resp.err,
              output |-> o.resp.output, Mountpoint |-> o.resp.Mountpoint,
              Volumes |-> o.resp.Volumes, line |-> o.line]
  /\ mutex' = IF o.resp.err = "nil" THEN 0 ELSE mutex
  /\ pc' = [pc EXCEPT ![h] = "idle"]

\* The deferred d.Unlock() and the return of handler h, which served op on
\* name with result o.
Return(h, op, name, o) ==
  /\ cmds' = o.cmds
  /\ daemons' = o.daemons
  /\ procs' = o.procs
  /\ dirs' = o.dirs
  /\ last' = [op |-> op, name |-> name, err |-> o.resp.err,
              output |-> o.resp.output, Mountpoint |-> o.resp.Mountpoint,
              Volumes |-> o.resp.Volumes, line |-> o.line]
  /\ mutex' = 0
  /\ pc' = [pc EXCEPT ![h] = "idle"]

\* The transport dispatches a call to a handler goroutine, which blocks in
\* d.Lock().
Request(h) ==
  /\ pc[h] = "idle"
  /\ pc' = [pc EXCEPT ![h] = "waiting"]
  /\ UNCHANGED <<mutex, cmds, daemons, procs, dirs, last>>

\* Variant of Lock: the handler enters without waiting for the mutex.
LockNoWait(h) ==
  /\ pc[h] = "waiting"
  /\ mutex' = h
  /\ pc' = [pc EXCEPT ![h] = "locked"]
  /\ UNCHANGED <<cmds, daemons, procs, dirs, last>>

\* d.Lock()
Lock(h) ==
  /\ pc[h] = "waiting"
  /\ mutex = 0
  /\ mutex' = h
  /\ pc' = [pc EXCEPT ![h] = "locked"]
  /\ UNCHANGED <<cmds, daemons, procs, dirs, last>>

\* src/main.go: Mount
Mount(h) ==
  /\ pc[h] = "locked"
  /\ \E name \in Names, env \in MountEnvs :
       Return(h, "Mount", name, MountBody(name, env))

\* src/main.go: Remove
Remove(h) ==
  /\ pc[h] = "locked"
  /\ \E name \in Names, env \in WaitEnvs :
       Return(h, "Remove", name, RemoveBody(name, env))

\* part_001: Create
RefCreate(h) ==
  /\ pc[h] = "locked"
  /\ \E name \in RefNames, env \in MkdirEnvs :
       Return(h, "Create", name, RefCreateBody(name, env))

\* part_001: Mount.  Every Mount on a registered daemon raises refs: at most
\* MaxRefs of them are served.
RefMount(h) ==
  /\ pc[h] = "locked"
  /\ \E name \in RefNames, env \in RefMountEnvs :
       /\ name \in DOMAIN daemons => daemons[name].refs < MaxRefs
       /\ Return(h, "Mount", name, RefMountBody(name, env))

\* part_001: Unmount
RefUnmount(h) ==
  /\ pc[h] = "locked"
  /\ \E name \in RefNames, env \in WaitEnvs :
       Return(h, "Unmount", name, RefUnmountBody(name, env))

\* src/main.go: List
List(h) ==
  /\ pc[h] = "locked"
  /\ \E fails \in BOOLEAN : Return(h, "List", <<>>, ListBody(fails))

\* part_000: Mount
PtrMount(h) ==
  /\ pc[h] = "locked"
  /\ \E name \in Names, env \in MountEnvs :
       Return(h, "Mount", name, PtrMountBody(name, env))

\* part_000: Remove
PtrRemove(h) ==
  /\ pc[h] = "locked"
  /\ \E name \in Names, env \in WaitEnvs :
       Return(h, "Remove", name, PtrRemoveBody(name, env))

Init ==
  /\ mutex = 0
  /\ pc = [h \in Handlers |-> "idle"]
  /\ cmds = <<>>
  /\ daemons = <<>>
  /\ procs = <<>>
  /\ dirs = {root}
  /\ last = [op |-> "none", name |-> <<>>, err |-> "nil", output |-> <<>>,
             Mountpoint |-> <<>>, Volumes |-> {}, line |-> <<>>]

Next ==
  \E h \in Handlers :
    Request(h) \/ Lock(h) \/ Mount(h) \/ Remove(h) \/ List(h)

\* The driver of src/main.go.
Spec == Init /\ [][Next]_vars

NextRef ==
  \E h \in Handlers :
    Request(h) \/ Lock(h) \/ RefCreate(h) \/ RefMount(h) \/ RefUnmount(h)

\* The reference-counting driver of src/unnamed/part_001.
SpecRef == Init /\ [][NextRef]_vars

NextPtr ==
  \E h \in Handlers : Request(h) \/ Lock(h) \/ PtrMount(h) \/ PtrRemove(h)

\* The pointer-map driver of src/unnamed/part_000.
SpecPtr == Init /\ [][NextPtr]_vars

\* Scheduling.  A handler that holds the mutex finishes its body (every
\* subprocess start, first-line read and wait returns), and a handler blocked
\* in d.Lock() is not passed over forever (sync.Mutex hands the mutex to a
\* waiter that starves).  The bodies of a driver are enabled in the same
\* states, pc[h] = "locked", and each of them ends the section: weak fairness
\* of one body is weak fairness of the section.
FairSpec ==
  /\ Spec
  /\ \A h \in Handlers : SF_vars(Lock(h)) /\ WF_vars(Remove(h))

FairSpecRef ==
  /\ SpecRef
  /\ \A h \in Handlers : SF_vars(Lock(h)) /\ WF_vars(RefUnmount(h))

----------------------------------------------------------------------------
\* Properties.

\* The step is the return of a call of op on name n.
Returns(op, n) ==
  /\ mutex # 0
  /\ mutex' = 0
  /\ last'.op = op
  /\ last'.name = n

\* The number of subprocesses forked for bucket (or name) b.
Spawned(b) == Cardinality({ i \in DOMAIN procs : procs[i].arg = b })

Buckets == { bucket(n) : n \in Names }

\* C1: whatever the subprocess prints, the Mount calls on the names of one
\* bucket spawn exactly one subprocess for it: never more than one, and one
\* once a Mount on the bucket has succeeded.
C1_OneSubprocessPerBucket ==
  \A b \in Buckets :
    /\ Spawned(b) <= 1
    /\ (last.op = "Mount" /\ last.err = "nil" /\ bucket(last.name) = b)
         => Spawned(b) = 1

\* C2: refs of a registered daemon counts the Mount calls that returned
\* success minus the Unmount calls that completed: a step changes it by +1
\* when it is a successful Mount on the daemon, by -1 when it is a completed
\* Unmount on it, and not at all otherwise (a Mount that returns an error
\* leaves refs alone).
C2_RefsCountsSuccessfulMounts ==
  [][\A n \in RefNames :
       (n \in DOMAIN daemons /\ n \in DOMAIN daemons')
         => daemons'[n].refs - daemons[n].refs =
              IF Returns("Mount", n) /\ last'.err = "nil" THEN 1
              ELSE IF Returns("Unmount", n) /\ last'.err = "nil" THEN -1
              ELSE 0]_vars

\* C3: refs of every registered daemon is at least 0.
C3_RefsNonNegative ==
  \A n \in DOMAIN daemons : daemons[n].refs >= 0

\* An Unmount returned on a daemon whose refs is 0, and left it registered.
C3_Witness ==
  /\ last.op = "Unmount"
  /\ last.name \in DOMAIN daemons
  /\ daemons[last.name].refs = 0

\* C4 as stated: a Mount that read the first line of the subprocess it
\* started succeeds if and only if the line is exactly the sentinel; any other
\* line makes it fail with the line's text and registers nothing.
C4_ExactSentinel ==
  (last.op = "Mount" /\ last.line # <<>>)
    => /\ (last.err = "nil") <=> (last.line = Sentinel)
       /\ last.line # Sentinel
            => /\ last.err = "errUnexpectedOutput"
               /\ last.output = last.line
               /\ bucket(last.name) \notin DOMAIN cmds

\* C4 amended: a Mount that read the first line of the subprocess it started
\* succeeds if and only if the line ends with the sentinel; any other line
\* makes it fail with the line's text and registers nothing.
C4_SentinelSuffix ==
  (last.op = "Mount" /\ last.line # <<>>)
    => /\ (last.err = "nil") <=> HasSuffix(last.line, Sentinel)
       /\ ~HasSuffix(last.line, Sentinel)
            => /\ last.err = "errUnexpectedOutput"
               /\ last.output = last.line
               /\ bucket(last.name) \notin DOMAIN cmds
       /\ HasSuffix(last.line, Sentinel)
            => bucket(last.name) \in DOMAIN cmds

\* A Mount succeeded on a line that has text before the sentinel.
C4_Witness ==
  /\ last.op = "Mount"
  /\ last.err = "nil"
  /\ last.line # Sentinel
  /\ HasSuffix(last.line, Sentinel)

\* C5 as stated: the mountpoint a successful Mount returns is root joined
\* with the bucket segment of the name.
C5_MountpointOfBucket ==
  (last.op = "Mount" /\ last.err = "nil")
    => last.Mountpoint = root \o <<"/">> \o bucket(last.name)

\* C5 amended: the mountpoint a successful Mount returns is root joined with
\* the whole volume name (root/b/x for "b/x", root/b for "b"), while the
\* directory created for the subprocess is root joined with the bucket.
C5_MountpointOfName ==
  (last.op = "Mount" /\ last.err = "nil")
    => /\ last.Mountpoint = root \o <<"/">> \o last.name
       /\ last.name = <<"b", "/", "x">>
            => last.Mountpoint = <<"/", "r", "/", "b", "/", "x">>
       /\ last.name = <<"b">> => last.Mountpoint = <<"/", "r", "/", "b">>
       /\ root \o <<"/">> \o bucket(last.name) \in dirs

\* A Mount of "b/x" started the subprocess and succeeded.
C5_Witness ==
  /\ last.op = "Mount"
  /\ last.err = "nil"
  /\ last.name = <<"b", "/", "x">>
  /\ last.line # <<>>

\* C6: Mount never returns success for a bucket whose registered subprocess
\* has exited (been interrupted and waited on).
C6_NoMountOnExited ==
  (last.op = "Mount" /\ last.err = "nil")
    => LET b == bucket(last.name)
       IN /\ b \in DOMAIN cmds
          /\ procs[cmds[b].Process].state # "exited"

\* C7: an Unmount that releases the last reference of a started daemon
\* removes the entry, whatever the outcome of the teardown.
C7_EntryRemovedOnLastUnmount ==
  [][\A n \in RefNames :
       ( /\ Returns("Unmount", n)
         /\ n \in DOMAIN daemons
         /\ daemons[n].refs = 1
         /\ daemons[n].Process # 0 )
         => n \notin DOMAIN daemons']_vars

\* C8: a successful Unmount after which refs remains > 0 does not signal or
\* wait on the subprocess, which keeps running.
C8_UnmountKeepsSubprocess ==
  [][\A n \in RefNames :
       ( /\ Returns("Unmount", n)
         /\ last'.err = "nil"
         /\ n \in DOMAIN daemons'
         /\ daemons'[n].refs > 0 )
         => /\ procs' = procs
            /\ procs[daemons[n].Process].state = "running"]_vars

\* C9: a Mount that follows a successful Mount on the same daemon succeeds,
\* returns the mountpoint, raises refs by one and starts no subprocess.
C9_SecondMountSucceeds ==
  [][\A n \in RefNames :
       ( /\ last.op = "Mount"
         /\ last.name = n
         /\ last.err = "nil"
         /\ Returns("Mount", n) )
         => /\ last'.err = "nil"
            /\ last'.Mountpoint = mountpoint(n)
            /\ daemons'[n].refs = daemons[n].refs + 1
            /\ procs' = procs]_vars

\* C10 as stated: Unmount of a name without registry entry returns success
\* and leaves the registry unchanged.
C10_UnknownUnmountSucceeds ==
  [][\A n \in RefNames :
       (Returns("Unmount", n) /\ n \notin DOMAIN daemons)
         => /\ last'.err = "nil"
            /\ daemons' = daemons]_vars

\* C10 amended: Unmount of a name without registry entry returns the unknown
\* volume error and leaves the registry and the subprocesses unchanged.
C10_UnknownUnmountFails ==
  [][\A n \in RefNames :
       (Returns("Unmount", n) /\ n \notin DOMAIN daemons)
         => /\ last'.err = "errUnknownVolume"
            /\ daemons' = daemons
            /\ procs' = procs]_vars

\* An Unmount returned the unknown volume error.
C10_Witness ==
  /\ last.op = "Unmount"
  /\ last.err = "errUnknownVolume"

\* C11: a Mount on a bucket whose registered subprocess has exited fails with
\* the zombie error and starts no subprocess.
C11_MountOnExitedIsZombie ==
  [][\A n \in Names :
       ( /\ Returns("Mount", n)
         /\ bucket(n) \in DOMAIN cmds
         /\ procs[cmds[bucket(n)].Process].state = "exited" )
         => /\ last'.err = "errZombie"
            /\ procs' = procs]_vars

\* C12: a Mount that started the subprocess and did not observe the sentinel
\* leaves the entry registered, and a Mount on an entry whose subprocess was
\* started returns an error, keeps the entry and starts no subprocess.
C12_FailedMountKeepsEntry ==
  [][\A n \in RefNames :
       (Returns("Mount", n) /\ n \in DOMAIN daemons)
         => /\ (last'.err # "nil" /\ procs' # procs) => n \in DOMAIN daemons'
            /\ daemons[n].Process # 0
                 => /\ last'.err # "nil"
                    /\ procs' = procs
                    /\ n \in DOMAIN daemons']_vars

\* A Mount started the subprocess, read a line that is not the sentinel, and
\* the entry is registered with the started subprocess.
C12_Witness ==
  /\ last.op = "Mount"
  /\ last.err = "errUnexpectedOutput"
  /\ last.name \in DOMAIN daemons
  /\ daemons[last.name].Process # 0

\* C13: the registry holds at most one daemon per bucket.
C13_OneDaemonPerBucket ==
  \A b \in { bucket(n) : n \in RefNames } :
    Cardinality({ n \in DOMAIN daemons : bucket(n) = b }) <= 1

\* C17: Unmount signals and waits only on a daemon whose subprocess has been
\* started.
C17_UnmountOnStartedOnly ==
  [][\A n \in RefNames :
       (Returns("Unmount", n) /\ n \in DOMAIN daemons)
         => /\ daemons[n].Process # 0
            /\ last'.err # "panic"]_vars

\* C18: every subprocess that was started and not waited on is referenced by
\* a registry entry.
C18_StartedIsRegistered ==
  \A pid \in DOMAIN procs :
    procs[pid].state # "exited"
      => \E b \in DOMAIN cmds : cmds[b].Process = pid

\* C14: every Mount that returns success returns the mountpoint root/name of
\* the requested name, whether it started the subprocess or found the bucket
\* registered.
C14_MountReturnsMountpoint ==
  (last.op = "Mount" /\ last.err = "nil")
    => last.Mountpoint = mountpoint(last.name)

\* C15: the registry is read and written only by the handler that holds the
\* mutex, and no two handlers are inside a registry-accessing section at the
\* same time.
C15_RegistryUnderMutex ==
  /\ [](\A h \in Handlers : pc[h] = "locked" <=> mutex = h)
  /\ [][(cmds' # cmds \/ daemons' # daemons \/ last' # last)
          => /\ mutex # 0
             /\ pc[mutex] = "locked"
             /\ pc' = [pc EXCEPT ![mutex] = "idle"]
             /\ mutex' = 0]_vars

\* One handler is inside its section, on a non-empty registry, while another
\* one is blocked in d.Lock().
C15_Witness ==
  \E h1, h2 \in Handlers :
    /\ h1 # h2
    /\ pc[h1] = "locked"
    /\ mutex = h1
    /\ pc[h2] = "waiting"
    /\ cmds # <<>>

\* C16: a List that returns a listing returns the directories directly below
\* root, whatever the registry holds; directories are never removed and every
\* bucket a Mount started a subprocess for has its directory, so such a bucket
\* is listed, also after Remove has torn its daemon down.
C16_ListFollowsDirectories ==
  /\ []((last.op = "List" /\ last.err = "nil")
          => /\ \A b \in Buckets :
                  (root \o <<"/">> \o b) \in dirs
                    <=> [Name |-> b, Mountpoint |-> root \o <<"/">> \o b]
                          \in last.Volumes
             /\ \A v \in last.Volumes : v.Name \in Buckets)
  /\ [](\A b \in Buckets :
          (Spawned(b) > 0 \/ b \in DOMAIN cmds) => (root \o <<"/">> \o b) \in dirs)
  /\ [][dirs \subseteq dirs']_vars

\* A List returned a bucket whose registered subprocess has been waited on.
C16_Witness ==
  /\ last.op = "List"
  /\ last.err = "nil"
  /\ \E b \in DOMAIN cmds :
       /\ procs[cmds[b].Process].state = "exited"
       /\ \E v \in last.Volumes : v.Name = b

\* C19: every return, the error returns and the panic included, releases the
\* mutex, and every handler blocked in d.Lock() eventually acquires it and
\* returns.
C19_PendingCompletes ==
  /\ [][\A h \in Handlers :
          (pc[h] = "locked" /\ pc'[h] = "idle") => mutex' = 0]_vars
  /\ \A h \in Handlers : (pc[h] = "waiting") ~> (pc[h] = "idle")

\* A handler holds the mutex after a call that returned an error (or
\* panicked).
C19_Witness ==
  /\ last.op # "none"
  /\ last.err # "nil"
  /\ \E h \in Handlers : pc[h] = "locked" /\ mutex = h

====
